---- MODULE Spec2Model ----
(***************************************************************************)
(* Model of ctzzy's verify-scts command: ctzzy/scripts/verify_scts.py (the *)
(* driver main, scrape_and_verify_scts and the three verification tasks)   *)
(* and ctzzy/tls/handshake.py (do_handshake, the extension-18 callback and *)
(* the three SCT extractors).                                              *)
(*                                                                         *)
(* Python's None is the empty sequence and a value v that may be None is   *)
(* the one-element sequence <<v>>.  Byte strings are sequences of numbers. *)
(***************************************************************************)
EXTENDS Integers, Sequences, FiniteSets, TLC

\* ---------------------------------------------------------------- bounds
MaxHosts == 2
MaxChain == 2
MaxScts == 2

\* ------------------------------------------------------------ primitives
None == <<>>

Some(v) == <<v>>

\* struct.pack('!H', x)
U16(x) == <<(x \div 256) % 256, x % 256>>

\* struct.unpack_from('!H', b, pos - 1), pos counted from 1
U16At(b, pos) == b[pos] * 256 + b[pos + 1]

RECURSIVE Flatten(_)
Flatten(ss) == IF ss = <<>> THEN <<>> ELSE Head(ss) \o Flatten(Tail(ss))

\* ------------------------------------------------- the SCT list on the wire
\* One SCT of the model is a one-byte sct_der; an SctList is
\* u16 total_len || (u16 sct_len || sct_der)*.
SctDer(k) == <<k>>

\* the lists tried: of every length up to MaxScts, the SCTs 1..k in
\* ascending and in descending order
SctLists ==
    UNION {{[i \in 1..k |-> SctDer(i)], [i \in 1..k |-> SctDer(k + 1 - i)]}
           : k \in 0..MaxScts}

EncodeSctList(l) ==
    LET body == Flatten([i \in 1..Len(l) |-> U16(Len(l[i])) \o l[i]])
    IN  U16(Len(body)) \o body

\* an SctList whose only entry announces one byte more than it carries
OverrunSctList == U16(3) \o U16(2) \o <<1>>

WireSctLists == {EncodeSctList(l) : l \in SctLists} \cup {OverrunSctList}

\* what a parser of the codec gives: the entries, or a failure (it raises)
ParseFailure == [ok |-> FALSE, sct_list |-> <<>>]

Parsed(entries) == [ok |-> TRUE, sct_list |-> entries]

\* the entries from position pos up to position last
RECURSIVE ParseEntries(_, _, _)
ParseEntries(b, pos, last) ==
    IF pos > last THEN Parsed(<<>>)
    ELSE IF pos + 1 > last THEN ParseFailure
    ELSE LET n == U16At(b, pos)
         IN  IF pos + 1 + n > last THEN ParseFailure
             ELSE LET rest == ParseEntries(b, pos + 2 + n, last)
                  IN  IF ~rest.ok THEN ParseFailure
                      ELSE Parsed(<<[sct_der |-> SubSeq(b, pos + 2, pos + 1 + n)]>>
                                  \o rest.sct_list)

\* SignedCertificateTimestampList(sctlist_der): its sct_list, or it raises
SignedCertificateTimestampList(b) ==
    IF Len(b) < 2 THEN ParseFailure
    ELSE IF 2 + U16At(b, 1) # Len(b) THEN ParseFailure
    ELSE ParseEntries(b, 3, Len(b))

\* TlsExtension18(tls_ext_18_tdf): its sct_list, or it raises
TlsExtension18(tdf) ==
    IF Len(tdf) < 4 THEN ParseFailure
    ELSE IF U16At(tdf, 1) # 18 THEN ParseFailure
    ELSE IF 4 + U16At(tdf, 3) # Len(tdf) THEN ParseFailure
    ELSE SignedCertificateTimestampList(SubSeq(tdf, 5, Len(tdf)))

\* SignedCertificateTimestamp(entry.sct_der)
SignedCertificateTimestamp(der) == [der |-> der]

\* ------------------------------------------------------------ DER (pyasn1)
\* A DER element met where an OCTET STRING is expected: kind "octets" is an
\* OCTET STRING whose contents are bytes; kind "mistagged" carries another
\* tag and bytes is its whole encoding (tag, length, contents).
Octets(b) == [kind |-> "octets", bytes |-> b]

\* INTEGER 0 where the OCTET STRING should be
MistaggedElement == [kind |-> "mistagged", bytes |-> <<2, 1, 0>>]

DerElements == {Octets(w) : w \in WireSctLists} \cup {MistaggedElement}

\* der_decoder(element, OctetString()): a tag that is not in asn1Spec sends the
\* decoder to its defaultErrorState, which raises PyAsn1Error
\* (stErrorCondition) or returns the raw encoding (stDumpRawValue).
DerDecodeOctetString(el, errorState) ==
    IF el.kind = "octets" THEN [raised |-> "", value |-> el.bytes]
    ELSE IF errorState = "stErrorCondition"
         THEN [raised |-> "PyAsn1Error", value |-> <<>>]
         ELSE [raised |-> "", value |-> el.bytes]

\* binascii.unhexlify(value.prettyPrint().split('0x')[-1]): prettyPrint gives
\* '0x' and the hex digits when a byte is not printable, and the text itself
\* (which is not the hex of the value) when every byte is printable.
UnhexlifyPrettyPrint(value) ==
    IF \E i \in 1..Len(value) : value[i] < 32 \/ value[i] > 126
    THEN [raised |-> "", bytes |-> value]
    ELSE IF value = <<>> THEN [raised |-> "", bytes |-> <<>>]
         ELSE [raised |-> "binascii.Error", bytes |-> <<>>]

\* what an extractor gives: the exception it raises ("" for none) and its list
Raises(exc) == [raised |-> exc, scts |-> <<>>]

Returns(scts) == [raised |-> "", scts |-> scts]

\* SctsOfEntries gone wrong: the entries taken from the last to the first
SctsOfEntriesReversed(sct_list) ==
    [i \in 1..Len(sct_list) |->
        SignedCertificateTimestamp(sct_list[Len(sct_list) + 1 - i].sct_der)]

\* [SignedCertificateTimestamp(entry.sct_der) for entry in sctlist.sct_list]
SctsOfEntries(sct_list) ==
    [i \in 1..Len(sct_list) |-> SignedCertificateTimestamp(sct_list[i].sct_der)]

\* lines 42-49 and 90-97: from the DER element to the list of SCTs
SctsOfElement(el, errorState) ==
    LET os_inner == DerDecodeOctetString(el, errorState)
        sctlist_der == UnhexlifyPrettyPrint(os_inner.value)
        sctlist == SignedCertificateTimestampList(sctlist_der.bytes)
    IN  IF os_inner.raised # "" THEN Raises(os_inner.raised)
        ELSE IF sctlist_der.raised # "" THEN Raises(sctlist_der.raised)
        ELSE IF ~sctlist.ok THEN Raises("MalformedSctList")
        ELSE Returns(SctsOfEntries(sctlist.sct_list))

\* ------------------------------------------------------------ certificates
\* An X509 object and its DER encoding.  sct_ext is the value of the
\* extension 1.3.6.1.4.1.11129.2.4.2, None when the certificate has none.
X509(id, sct_ext) == [obj |-> "X509", id |-> id, sct_ext |-> sct_ext]

\* OpenSSL.crypto.dump_certificate(type=FILETYPE_ASN1, cert=x)
DumpCertificate(x) == [obj |-> "DER", id |-> x.id, sct_ext |-> x.sct_ext]

\* scts_from_cert(cert_der)
SctsFromCert(cert_der, errorState) ==
    IF cert_der = None THEN Raises("PyAsn1Error")
    ELSE LET exts == cert_der[1].sct_ext
         IN  IF Len(exts) # 0 THEN SctsOfElement(exts[1], errorState)
             ELSE Returns(<<>>)

\* ------------------------------------------------------------------- OCSP
\* response.prettyPrint() as the pieces the splits look for: the line of the
\* OID 1.3.6.1.4.1.11129.2.4.5, a line '<no-name>=0x...' (el is the element
\* the hex digits encode), any other text.
OidLine == [t |-> "oid", el |-> MistaggedElement]

HexLine(el) == [t |-> "hex", el |-> el]

OtherLine == [t |-> "other", el |-> MistaggedElement]

\* the positions of the lines of kind t after position from
LinesAfter(pp, t, from) == {i \in (from + 1)..Len(pp) : pp[i].t = t}

Min(S) == CHOOSE x \in S : \A y \in S : x <= y

\* sctlist_hex_from_ocsp_pretty_print(ocsp_resp)
SctlistHexFromOcspPrettyPrint(pp) ==
    LET oids == LinesAfter(pp, "oid", 0)
    IN  IF oids = {} THEN [raised |-> "", sctlist_hex |-> None]
        ELSE LET hexes == LinesAfter(pp, "hex", Min(oids))
             IN  IF hexes = {} THEN [raised |-> "ValueError", sctlist_hex |-> None]
                 ELSE [raised |-> "", sctlist_hex |-> Some(pp[Min(hexes)].el)]

\* a stapled OCSP response: whether it has responseBytes, and its response
OcspResponse(has_bytes, pp) == [response_bytes |-> has_bytes, response |-> pp]

OcspResponses ==
    {OcspResponse(FALSE, <<>>),
     OcspResponse(TRUE, <<OtherLine, HexLine(MistaggedElement)>>),
     OcspResponse(TRUE, <<HexLine(MistaggedElement), OidLine, OtherLine>>)}
    \cup {OcspResponse(TRUE, <<OtherLine, OidLine, HexLine(el)>>) : el \in DerElements}

\* scts_from_ocsp_resp(ocsp_resp_der): what it raises or returns, and the
\* value it leaves in der_decoder.defaultErrorState
SctsFromOcspResp(ocsp_resp_der, errorState) ==
    IF ocsp_resp_der = None
    THEN [result |-> Returns(<<>>), errorState |-> errorState]
    ELSE IF ~ocsp_resp_der[1].response_bytes
    THEN [result |-> Returns(<<>>), errorState |-> errorState]
    ELSE LET sctlist_os_hex ==
                 SctlistHexFromOcspPrettyPrint(ocsp_resp_der[1].response)
             hex == sctlist_os_hex.sctlist_hex
         IN  [result |->
                  IF sctlist_os_hex.raised # "" THEN Raises(sctlist_os_hex.raised)
                  ELSE IF hex # None THEN SctsOfElement(hex[1], "stDumpRawValue")
                  ELSE Returns(<<>>),
              errorState |-> "stDumpRawValue"]

\* ---------------------------------------------------------- TLS extension
\* scts_from_tls_ext_18(tls_ext_18_tdf)
SctsFromTlsExt18(tls_ext_18_tdf) ==
    IF tls_ext_18_tdf # None /\ tls_ext_18_tdf[1] # <<>>
    THEN LET tls_extension_18 == TlsExtension18(tls_ext_18_tdf[1])
         IN  IF ~tls_extension_18.ok THEN Raises("MalformedSctList")
             ELSE Returns(SctsOfEntries(tls_extension_18.sct_list))
    ELSE Returns(<<>>)

\* ------------------------------------------------------------ do_handshake
\* serverinfo_cli_parse_cb(ssl, ext_type, _in, inlen, al, arg), a cffi
\* def_extern callback: what it returns to OpenSSL and ctx.tls_ext_18_tdf
\* after it.  For ext_type 18 the expression reduce_func[...] subscripts a
\* function: TypeError is raised before ctx.tls_ext_18_tdf is assigned, and
\* cffi returns the callback's error value 0.
ServerinfoCliParseCb(ctx_tls_ext_18_tdf, ext_type, inner) ==
    IF ext_type = 18
    THEN [ret |-> 0, tls_ext_18_tdf |-> ctx_tls_ext_18_tdf]
    ELSE [ret |-> 1, tls_ext_18_tdf |-> ctx_tls_ext_18_tdf]

\* sock.set_tlsext_host_name(domain.encode()): pyOpenSSL raises TypeError for
\* a name that contains a NUL byte
SetTlsextHostName(domain) ==
    IF \E i \in 1..Len(domain) : domain[i] = "NUL" THEN "TypeError" ELSE ""

\* IssuerCandidates gone wrong: the leaf appended after the chain
IssuerCandidatesLeafLast(ee_cert_x509, chain_x509s) ==
    chain_x509s \o <<ee_cert_x509>>

\* more_issuer_cert_x509_candidates = [ee_cert_x509] + chain_x509s
IssuerCandidates(ee_cert_x509, chain_x509s) == <<ee_cert_x509>> \o chain_x509s

TlsHandshakeResult(ee_cert_der, issuer_cert_der, more_issuer_cert_der_candidates, ocsp_resp_der, tls_ext_18_tdf, err) ==
    [ee_cert_der |-> ee_cert_der,
     issuer_cert_der |-> issuer_cert_der,
     more_issuer_cert_der_candidates |-> more_issuer_cert_der_candidates,
     ocsp_resp_der |-> ocsp_resp_der,
     tls_ext_18_tdf |-> tls_ext_18_tdf,
     err |-> err]

\* The peer and the environment of one handshake:
\*   net    "unresolved" and "refused" (connect raises), "alert"
\*          (do_handshake raises), "ok"
\*   ext18  the payload of the server's extension-18 reply, None for no reply
\*   chain  get_peer_cert_chain(): the chain, leaf first, or None
\*   ocsp   the stapled OCSP response, None when nothing is stapled
\*   stdout whether print() at line 254 succeeds
\* do_handshake from its try to its return (lines 235-296), given them.
DoHandshakeFromTry(scts_tls, scts_ocsp, peer) ==
    LET cb == IF scts_tls /\ peer.ext18 # None
              THEN ServerinfoCliParseCb(None, 18, peer.ext18[1])
              ELSE [ret |-> 1, tls_ext_18_tdf |-> None]
        ctx_ocsp_resp_der == IF scts_ocsp THEN peer.ocsp ELSE None
        handshaken == peer.net = "ok" /\ cb.ret = 1
        has_chain == handshaken /\ peer.chain # None
        exc == IF peer.net = "unresolved" THEN "socket.gaierror"
               ELSE IF peer.net = "refused" THEN "ConnectionRefusedError"
               ELSE IF ~handshaken THEN "SSL.Error"
               ELSE IF ~has_chain THEN "TypeError"
               ELSE IF ~peer.stdout THEN "BrokenPipeError"
               ELSE ""
        chain_x509s == IF has_chain THEN peer.chain[1] ELSE <<>>
        ee_cert_x509 == IF has_chain THEN Some(chain_x509s[1]) ELSE None
        issuer_cert_x509 ==
            IF Len(chain_x509s) > 1 THEN Some(chain_x509s[2]) ELSE None
        more_issuer_cert_x509_candidates ==
            IF has_chain THEN IssuerCandidates(ee_cert_x509[1], chain_x509s)
            ELSE <<>>
        tls_ext_18_tdf ==
            IF exc = "" /\ scts_tls /\ cb.tls_ext_18_tdf # None
               /\ cb.tls_ext_18_tdf[1] # <<>>
            THEN cb.tls_ext_18_tdf ELSE None
        ocsp_resp_der ==
            IF exc = "" /\ scts_ocsp THEN ctx_ocsp_resp_der ELSE None
    IN  TlsHandshakeResult(
            IF ee_cert_x509 # None THEN Some(DumpCertificate(ee_cert_x509[1]))
            ELSE None,
            IF issuer_cert_x509 # None
            THEN Some(DumpCertificate(issuer_cert_x509[1])) ELSE None,
            [i \in 1..Len(more_issuer_cert_x509_candidates) |->
                DumpCertificate(more_issuer_cert_x509_candidates[i])],
            ocsp_resp_der, tls_ext_18_tdf, exc)

\* ------------------------------------------------------ verification tasks
EndEntityCert(ee_cert_der) == [ee_cert_der |-> ee_cert_der]

IssuerCert(cert_der) == [cert_der |-> cert_der]

\* the arguments of one call of ctzzy.sct.verification.verify_scts
VerifySctsArgs(ee_cert, scts, issuer_cert, more_issuer_cert_candidates, sign_input_func) ==
    [ee_cert |-> ee_cert, scts |-> scts, issuer_cert |-> issuer_cert,
     more_issuer_cert_candidates |-> more_issuer_cert_candidates,
     sign_input_func |-> sign_input_func]

\* verify_scts_by_cert(res, ctlogs), scts being res.scts_by_cert
VerifySctsByCert(res, scts) ==
    VerifySctsArgs(EndEntityCert(res.ee_cert_der), scts,
                   Some(IssuerCert(res.issuer_cert_der)),
                   Some([i \in 1..Len(res.more_issuer_cert_der_candidates) |->
                           IssuerCert(Some(res.more_issuer_cert_der_candidates[i]))]),
                   "create_signature_input_precert")

\* VerifySctsByTls gone wrong: the arguments of the certificate channel
VerifySctsByTlsAsPrecert(res, scts) == VerifySctsByCert(res, scts)

\* verify_scts_by_tls(res, ctlogs), scts being res.scts_by_tls
VerifySctsByTls(res, scts) ==
    VerifySctsArgs(EndEntityCert(res.ee_cert_der), scts, None, None,
                   "create_signature_input")

\* verify_scts_by_ocsp(res, ctlogs), scts being res.scts_by_ocsp
VerifySctsByOcsp(res, scts) ==
    VerifySctsArgs(EndEntityCert(res.ee_cert_der), scts, None, None,
                   "create_signature_input")

\* The lazy value the task reads (scts_by_cert, scts_by_tls, scts_by_ocsp):
\* what its extractor raises or returns, and defaultErrorState after it.
ScrapeScts(task, res, errorState) ==
    IF task = "verify_scts_by_cert"
    THEN [result |-> SctsFromCert(res.ee_cert_der, errorState),
          errorState |-> errorState]
    ELSE IF task = "verify_scts_by_tls"
    THEN [result |-> SctsFromTlsExt18(res.tls_ext_18_tdf),
          errorState |-> errorState]
    ELSE SctsFromOcspResp(res.ocsp_resp_der, errorState)

VerificationTask(task, res, scts) ==
    IF task = "verify_scts_by_cert" THEN VerifySctsByCert(res, scts)
    ELSE IF task = "verify_scts_by_tls" THEN VerifySctsByTls(res, scts)
    ELSE VerifySctsByOcsp(res, scts)

\* verify_scts(...): one SctVerificationResult for each SCT, in the order of
\* scts; verdicts[i] is the outcome of the signature check of the i-th SCT.
VerifyScts(args, verdicts) ==
    [i \in 1..Len(args.scts) |-> [sct |-> args.scts[i], verified |-> verdicts[i]]]

\* create_parser: the values of verification_tasks (--cert-only, --tls-only,
\* --ocsp-only, default)
AllTasks == <<"verify_scts_by_cert", "verify_scts_by_tls", "verify_scts_by_ocsp">>

TaskSelections ==
    {AllTasks, <<"verify_scts_by_cert">>, <<"verify_scts_by_tls">>,
     <<"verify_scts_by_ocsp">>}

In(x, seq) == \E i \in 1..Len(seq) : seq[i] = x

\* ---------------------------------------------------------------- argparse
\* create_parser: each add_argument with its option strings, in order, and
\* its dest keyword (None when it gives none)
Option(prefix, name) == [prefix |-> prefix, name |-> name]

ParserArguments ==
    {[option_strings |-> <<Option("-", "v"), Option("--", "version")>>,
      dest |-> None],
     [option_strings |-> <<Option("-", "df"), Option("--", "domain_file")>>,
      dest |-> None],
     [option_strings |-> <<Option("--", "short")>>, dest |-> Some("loglevel")],
     [option_strings |-> <<Option("--", "debug")>>, dest |-> Some("loglevel")],
     [option_strings |-> <<Option("--", "cert_only")>>,
      dest |-> Some("verification_tasks")],
     [option_strings |-> <<Option("--", "tls_only")>>,
      dest |-> Some("verification_tasks")],
     [option_strings |-> <<Option("--", "ocsp_only")>>,
      dest |-> Some("verification_tasks")],
     [option_strings |-> <<Option("--", "log_list")>>,
      dest |-> Some("log_list_filename")],
     [option_strings |-> <<Option("--", "latest_logs")>>,
      dest |-> Some("fetch_ctlogs")]}

\* argparse: the dest keyword, else the first long option string, else the
\* first option string
ArgumentDest(a) ==
    IF a.dest # None THEN a.dest[1]
    ELSE LET long == {i \in 1..Len(a.option_strings) :
                         a.option_strings[i].prefix = "--"}
         IN  IF long # {} THEN a.option_strings[Min(long)].name
             ELSE a.option_strings[1].name

\* the attributes of the Namespace parse_args returns
NamespaceAttributes == {ArgumentDest(a) : a \in ParserArguments}

\* args.df at line 274: AttributeError when the Namespace has no such attribute
ArgsDf == IF "df" \in NamespaceAttributes THEN "" ELSE "AttributeError"

\* ------------------------------------------------------------- environment
Hostnames == {<<"a">>, <<"a", "NUL">>}

\* The lines of a domain file, as characters: a hostname and a blank line,
\* each ended by its newline "LF"; the last line of a file may lack it.
EndedLines == {<<"a", "LF">>, <<"LF">>}

LastLines == EndedLines \cup {<<"a">>}

\* the domain files of n lines
DomainFiles(n) ==
    {f \in [1..n -> LastLines] : \A i \in 1..(n - 1) : f[i] \in EndedLines}

\* f.readline() for the line at position pos: the line with its newline,
\* '' at the end of the file
Readline(f, pos) == IF pos <= Len(f) THEN f[pos] ELSE <<>>

\* sock.connect((domain, port)): no address is found for a name that holds a
\* newline
Resolves(domain) == \A i \in 1..Len(domain) : domain[i] # "LF"

SctExtensions == {None} \cup {Some(el) : el \in DerElements}

\* a presented chain of n certificates: the leaf (id 0) and its issuers
Chain(n, sct_ext) ==
    [i \in 1..n |-> IF i = 1 THEN X509(0, sct_ext) ELSE X509(i - 1, None)]

Ext18Replies ==
    {None} \cup {Some(EncodeSctList(l)) : l \in {m \in SctLists : Len(m) <= 1}}

Peer(net, ext18, chain, ocsp, stdout) ==
    [net |-> net, ext18 |-> ext18, chain |-> chain, ocsp |-> ocsp,
     stdout |-> stdout]

RefusedPeer == Peer("refused", None, None, None, TRUE)

UnresolvedPeer == Peer("unresolved", None, None, None, TRUE)

Chains == {Chain(n, x) : n \in 1..MaxChain, x \in SctExtensions}

\* The peers tried.  What the handshake never reads is left at None: nothing
\* after a refused connect or an alert, no staple when there is no chain or
\* when print fails.
Peers ==
    {RefusedPeer, Peer("alert", None, None, None, TRUE)}
    \cup {Peer("ok", e, None, None, TRUE) : e \in Ext18Replies}
    \cup {Peer("ok", e, Some(c), None, FALSE) : e \in Ext18Replies, c \in Chains}
    \cup {Peer("ok", e, Some(c), o, TRUE) :
             e \in Ext18Replies, c \in Chains,
             o \in {None} \cup {Some(r) : r \in OcspResponses}}

NoResult == TlsHandshakeResult(None, None, <<>>, None, None, "")

\* one line group of the report (the logger at loglevel INFO)
Event(ev, task, sct, verified) ==
    [ev |-> ev, task |-> task, sct |-> sct, verified |-> verified]

Line(ev) == Event(ev, "", <<>>, FALSE)

\* ------------------------------------------------------------------- state
VARIABLES
    entry,       \* "main": the command; "loop": its lines 275-280, given the
                 \* open domain file; "call": a caller of scrape_and_verify_scts
    argv,        \* the command line: "misuse", "version" or "run"
    isfile,      \* os.path.isfile of the domain file
    tasks,       \* verification_tasks
    nHosts,      \* the lines of the domain file (the calls of the caller)
    file,        \* the domain file, line by line (empty for the caller)
    down,        \* hosts of the domain file known to refuse the connection
    pc,          \* where the program is
    exitCode,    \* the command's exit code, -1 while there is none
    idx,         \* the number of the host being processed
    domain,      \* its hostname
    peer,        \* what its server and the environment did in the handshake
    sockOpen,    \* the hosts whose socket is open
    errorState,  \* der_decoder.defaultErrorState
    res,         \* the TlsHandshakeResult of the host
    taskPos,     \* the position in verification_tasks
    report,      \* what has been reported for the host
    calls        \* the verify_scts calls made for the host, with what they returned

vars == <<entry, argv, isfile, tasks, nHosts, file, down, pc, exitCode, idx, domain,
          peer, sockOpen, errorState, res, taskPos, report, calls>>

inputs == <<entry, argv, isfile, tasks, nHosts, file, down>>

Init ==
    /\ entry \in {"main", "loop", "call"}
    /\ argv \in (IF entry = "main" THEN {"misuse", "version", "run"} ELSE {"run"})
    /\ isfile \in (IF entry = "main" THEN BOOLEAN ELSE {TRUE})
    /\ tasks \in TaskSelections
    /\ nHosts \in 1..MaxHosts
    /\ file \in (IF entry = "call" THEN {<<>>} ELSE DomainFiles(nHosts))
    /\ down \in (IF entry = "main" THEN SUBSET (1..nHosts) ELSE {{}})
    /\ pc = (IF entry = "main" THEN "main_parse" ELSE "next_host")
    /\ exitCode = -1
    /\ idx = 0
    /\ domain = <<>>
    /\ peer = RefusedPeer
    /\ sockOpen = {}
    /\ errorState = "stErrorCondition"
    /\ res = NoResult
    /\ taskPos = 0
    /\ report = <<>>
    /\ calls = <<>>

\* an exception nobody catches: the command ends with exit code 1
Uncaught ==
    /\ pc' = "raised"
    /\ exitCode' = (IF entry = "main" THEN 1 ELSE exitCode)

\* main, lines 260-263: parse_args ends the command on an error (exit code 2)
\* and on --version (exit code 0)
MainParseArgs ==
    /\ pc = "main_parse"
    /\ IF argv = "misuse" THEN pc' = "exited" /\ exitCode' = 2
       ELSE IF argv = "version" THEN pc' = "exited" /\ exitCode' = 0
       ELSE pc' = "main_logs" /\ exitCode' = exitCode
    /\ UNCHANGED <<inputs, idx, domain, peer, sockOpen, errorState, res,
                   taskPos, report, calls>>

\* main, lines 266-273: the log list
MainLoadLogs ==
    /\ pc = "main_logs"
    /\ pc' = "main_open"
    /\ UNCHANGED <<inputs, exitCode, idx, domain, peer, sockOpen, errorState,
                   res, taskPos, report, calls>>

\* main, lines 274-275 and 281-282
MainOpenFile ==
    /\ pc = "main_open"
    /\ IF ArgsDf # "" THEN Uncaught
       ELSE IF isfile THEN pc' = "next_host" /\ exitCode' = exitCode
       ELSE pc' = "exited" /\ exitCode' = 0
    /\ UNCHANGED <<inputs, idx, domain, peer, sockOpen, errorState, res,
                   taskPos, report, calls>>

\* main, lines 276-278 (a line was read), or the caller's next call; then
\* scrape_and_verify_scts, line 225
CallScrape ==
    /\ pc = "next_host"
    /\ idx < nHosts
    /\ IF entry = "call" THEN \E d \in Hostnames : domain' = d
       ELSE /\ Readline(file, idx + 1) # <<>>
            /\ domain' = Readline(file, idx + 1)
    /\ idx' = idx + 1
    /\ pc' = "handshake_setup"
    /\ res' = NoResult
    /\ peer' = RefusedPeer
    /\ taskPos' = 0
    /\ report' = <<Line("host")>>
    /\ calls' = <<>>
    /\ UNCHANGED <<inputs, exitCode, sockOpen, errorState>>

\* main, lines 277 and 280: readline gave '', the loop and main end
Finish ==
    /\ pc = "next_host"
    /\ idx = nHosts
    /\ entry # "call" => Readline(file, idx + 1) = <<>>
    /\ pc' = "exited"
    /\ exitCode' = (IF entry = "main" THEN 0 ELSE exitCode)
    /\ UNCHANGED <<inputs, idx, domain, peer, sockOpen, errorState, res,
                   taskPos, report, calls>>

\* do_handshake, lines 229-233: the context, the socket, the server name
HandshakeSetup ==
    /\ pc = "handshake_setup"
    /\ sockOpen' = sockOpen \cup {idx}
    /\ IF SetTlsextHostName(domain) # "" THEN Uncaught
       ELSE pc' = "handshake_try" /\ exitCode' = exitCode
    /\ UNCHANGED <<inputs, idx, domain, peer, errorState, res, taskPos,
                   report, calls>>

\* do_handshake, lines 235-296: try, except, finally, and the result
HandshakeTry ==
    /\ pc = "handshake_try"
    /\ \E p \in (IF ~Resolves(domain) THEN {UnresolvedPeer}
                ELSE IF idx \in down THEN {RefusedPeer} ELSE Peers) :
          /\ peer' = p
          /\ res' = DoHandshakeFromTry(In("verify_scts_by_tls", tasks),
                                       In("verify_scts_by_ocsp", tasks), p)
    /\ sockOpen' = sockOpen \ {idx}
    /\ pc' = "report"
    /\ UNCHANGED <<inputs, exitCode, idx, domain, errorState, taskPos, report,
                   calls>>

\* RunsTasks gone wrong: the tasks run whenever a certificate was fetched
RunsTasksWithCert(r) == r.ee_cert_der # None

\* scrape_and_verify_scts, line 245: `if res.err:` skips the tasks
RunsTasks(r) == r.err = ""

\* scrape_and_verify_scts, lines 230-247
Report ==
    /\ pc = "report"
    /\ LET info == IF res.ee_cert_der # None THEN <<Line("cert_info")>> ELSE <<>>
       IN  IF RunsTasks(res)
           THEN /\ report' = report \o info
                /\ pc' = "task"
                /\ taskPos' = 1
           ELSE /\ report' = report \o info \o <<Line("warning")>>
                /\ pc' = "next_host"
                /\ taskPos' = taskPos
    /\ UNCHANGED <<inputs, exitCode, idx, domain, peer, sockOpen, errorState,
                   res, calls>>

\* show_verification for each verification, in order
ShowVerifications(task, verifications) ==
    [i \in 1..Len(verifications) |->
        Event("verification", task, verifications[i].sct.der,
              verifications[i].verified)]

\* scrape_and_verify_scts, lines 248-256: one verification task
RunTask ==
    /\ pc = "task"
    /\ LET task == tasks[taskPos]
           heading == <<Event("heading", task, <<>>, FALSE)>>
           scraped == ScrapeScts(task, res, errorState)
       IN  /\ errorState' = scraped.errorState
           /\ IF scraped.result.raised # ""
              THEN /\ Uncaught
                   /\ report' = report \o heading
                   /\ UNCHANGED <<calls, taskPos>>
              ELSE \E verdicts \in [1..Len(scraped.result.scts) -> BOOLEAN] :
                      LET args == VerificationTask(task, res, scraped.result.scts)
                          verifications == VerifyScts(args, verdicts)
                      IN  /\ calls' = Append(calls, [task |-> task, args |-> args,
                                                       returned |-> verifications])
                          /\ report' = report \o heading \o
                                 (IF verifications # <<>>
                                  THEN ShowVerifications(task, verifications)
                                  ELSE IF res.ee_cert_der # None
                                       THEN <<Event("no_scts", task, <<>>, FALSE)>>
                                       ELSE <<>>)
                          /\ exitCode' = exitCode
                          /\ IF taskPos < Len(tasks)
                             THEN taskPos' = taskPos + 1 /\ pc' = "task"
                             ELSE taskPos' = taskPos /\ pc' = "next_host"
    /\ UNCHANGED <<inputs, idx, domain, peer, sockOpen, res>>

Next ==
    \/ MainParseArgs
    \/ MainLoadLogs
    \/ MainOpenFile
    \/ CallScrape
    \/ Finish
    \/ HandshakeSetup
    \/ HandshakeTry
    \/ Report
    \/ RunTask

Spec == Init /\ [][Next]_vars

\* ------------------------------------------------------------------ claims
\* scrape_and_verify_scts has ended for the host (it returned or raised)
ScrapeEnded == idx > 0 /\ pc \in {"next_host", "exited", "raised"}

\* do_handshake has returned its result for the host
HandshakeReturned ==
    /\ idx > 0
    /\ \/ pc \in {"report", "task", "next_host", "exited"}
       \/ pc = "raised" /\ taskPos > 0

HandshakeSucceeded == HandshakeReturned /\ res.err = "" /\ res.ee_cert_der # None

Reported(ev, task) ==
    \E i \in 1..Len(report) : report[i].ev = ev /\ report[i].task = task

\* C1 (as claimed): once scrape_and_verify_scts has ended for a host whose
\* handshake succeeded, every selected channel has been reported for that
\* host (its heading is in the report), also when the extraction of another
\* channel failed.
C1_EveryChannelReported ==
    (ScrapeEnded /\ HandshakeSucceeded)
        => \A k \in 1..Len(tasks) : Reported("heading", tasks[k])

\* C2 (as claimed): when the command, run on a readable domain file, has
\* ended, every host of the file that follows a host whose connect fails has
\* been handed to scrape_and_verify_scts.
C2_LaterHostsStillProcessed ==
    (entry = "main" /\ pc \in {"exited", "raised"} /\ argv = "run" /\ isfile)
        => \A i \in down : \A j \in (i + 1)..nHosts : idx >= j

\* C3: while the result's err is set, no verification task has been invoked
\* for the host and nothing of a task (heading, per-SCT result, "no SCTs")
\* has been reported, whatever else the result holds; the host is done after
\* its warning.
C3_NoVerificationOnErr ==
    (HandshakeReturned /\ res.err # "")
        => /\ calls = <<>>
           /\ pc # "task"
           /\ \A i \in 1..Len(report) :
                 report[i].ev \notin {"heading", "verification", "no_scts"}

\* C3 witness: a host was reported with err set although its certificate had
\* already been fetched
C3_Witness ==
    /\ pc = "next_host"
    /\ res.err # ""
    /\ res.ee_cert_der # None
    /\ res.more_issuer_cert_der_candidates # <<>>
    /\ Reported("warning", "")

\* C4 (as claimed): the command ends with exit code 0 when the command line
\* is right and the domain file is a file, and with exit code 1 only on a
\* wrong command line or a domain file that is no file.
C4_ExitCodes ==
    (entry = "main" /\ pc \in {"exited", "raised"})
        => /\ (argv = "run" /\ isfile) => exitCode = 0
           /\ exitCode = 1 => (argv = "misuse" \/ ~isfile)

\* C5: every verify_scts call made for the TLS and the OCSP channel passes
\* the leaf builder, no issuer certificate and no issuer candidates; every
\* call made for the certificate channel passes the precert builder, the
\* issuer certificate and the issuer candidates of the handshake result.
C5_BuilderByChannel ==
    \A i \in 1..Len(calls) :
        LET c == calls[i]
        IN  /\ c.args.ee_cert = EndEntityCert(res.ee_cert_der)
            /\ c.task \in {"verify_scts_by_tls", "verify_scts_by_ocsp"}
                  => /\ c.args.sign_input_func = "create_signature_input"
                     /\ c.args.issuer_cert = None
                     /\ c.args.more_issuer_cert_candidates = None
            /\ c.task = "verify_scts_by_cert"
                  => /\ c.args.sign_input_func = "create_signature_input_precert"
                     /\ c.args.issuer_cert = Some(IssuerCert(res.issuer_cert_der))
                     /\ c.args.more_issuer_cert_candidates # None
                     /\ Len(c.args.more_issuer_cert_candidates[1])
                            = Len(res.more_issuer_cert_der_candidates)
                     /\ \A k \in 1..Len(res.more_issuer_cert_der_candidates) :
                           c.args.more_issuer_cert_candidates[1][k].cert_der
                               = Some(res.more_issuer_cert_der_candidates[k])

\* C5 witness: the three tasks were called for one host, with SCTs in the
\* certificate and in the OCSP response, and an issuer in the chain
C5_Witness ==
    /\ Len(calls) = 3
    /\ calls[1].task = "verify_scts_by_cert" /\ calls[1].args.scts # <<>>
    /\ calls[2].task = "verify_scts_by_tls"
    /\ calls[3].task = "verify_scts_by_ocsp" /\ calls[3].args.scts # <<>>
    /\ res.issuer_cert_der # None

\* the DER encodings of a list of X509 objects
DerOfEach(x509s) == [i \in 1..Len(x509s) |-> DumpCertificate(x509s[i])]

\* C6 (amended): after a handshake that succeeded, the issuer candidates are
\* the end-entity certificate first, followed by the presented chain in
\* presentation order.
C6_CandidatesLeafFirst ==
    HandshakeSucceeded
        => res.more_issuer_cert_der_candidates
               = DerOfEach(<<peer.chain[1][1]>> \o peer.chain[1])

\* C6 (as claimed): the issuer candidates are the presented chain in
\* presentation order with the end-entity certificate appended last.
C6_CandidatesLeafLast ==
    HandshakeSucceeded
        => res.more_issuer_cert_der_candidates
               = DerOfEach(peer.chain[1] \o <<peer.chain[1][1]>>)

\* C6 witness: a handshake succeeded with a chain of the leaf and an issuer
C6_Witness == HandshakeSucceeded /\ Len(peer.chain[1]) >= 2

\* C7 (as claimed): when the capture of extension 18 is enabled and the
\* server replied with extension 18 carrying inner, the result's
\* tls_ext_18_tdf is u16(18) || u16(len(inner)) || inner.
C7_Ext18Verbatim ==
    (HandshakeReturned /\ In("verify_scts_by_tls", tasks)
     /\ peer.net = "ok" /\ peer.ext18 # None)
        => res.tls_ext_18_tdf
               = Some(U16(18) \o U16(Len(peer.ext18[1])) \o peer.ext18[1])

\* C8 (as claimed): outside the try of do_handshake no socket is open: the
\* socket of a host is closed however do_handshake ended.
C8_SocketClosedOnEveryExit == pc # "handshake_try" => sockOpen = {}

\* the list of SCTs an SctList encodes
ListOnWire(bytes) == CHOOSE l \in SctLists : EncodeSctList(l) = bytes

\* the SCTs a DER element holding a well-formed SctList carries, in order
ListOfElement(el) ==
    IF el.kind = "octets" /\ el.bytes # OverrunSctList
    THEN ListOnWire(el.bytes) ELSE <<>>

\* the SCTs the server delivered to the host in the channel of the task, in
\* the order of their container
Delivered(task) ==
    IF task = "verify_scts_by_cert"
    THEN LET ext == peer.chain[1][1].sct_ext
         IN  IF ext = None THEN <<>> ELSE ListOfElement(ext[1])
    ELSE IF task = "verify_scts_by_ocsp"
    THEN IF peer.ocsp = None \/ ~peer.ocsp[1].response_bytes THEN <<>>
         ELSE LET pp == peer.ocsp[1].response
              IN  IF pp[Len(pp)].t = "hex" /\ pp[Len(pp) - 1].t = "oid"
                  THEN ListOfElement(pp[Len(pp)].el) ELSE <<>>
    ELSE IF peer.ext18 = None THEN <<>> ELSE ListOnWire(peer.ext18[1])

\* the per-SCT results reported for the task, in the order of the report
ReportedVerifications(task) ==
    LET IsOfTask(e) == e.ev = "verification" /\ e.task = task
    IN  SelectSeq(report, IsOfTask)

ReportedScts(task) ==
    LET shown == ReportedVerifications(task)
    IN  [i \in 1..Len(shown) |-> shown[i].sct]

TaskIndex(task) == CHOOSE k \in 1..Len(tasks) : tasks[k] = task

\* the task at position k has run to its end
TaskDone(k) ==
    \/ taskPos > k
    \/ taskPos = k /\ pc \in {"next_host", "exited"}

\* C9: what is reported for a host is in the order of the tasks, the report
\* of one task never interleaved with another's; the per-SCT results of a
\* task that ran are the SCTs of its container, one for each entry, in the
\* order of the container, and they are the results the task returned, in
\* the order it returned them.
C9_ContainerOrder ==
    HandshakeSucceeded =>
        /\ \A i, j \in 1..Len(report) :
              (i < j /\ report[i].task # "" /\ report[j].task # "")
                  => TaskIndex(report[i].task) <= TaskIndex(report[j].task)
        /\ \A k \in 1..Len(tasks) :
              TaskDone(k) =>
                  /\ ReportedScts(tasks[k]) = Delivered(tasks[k])
                  /\ calls[k].task = tasks[k]
                  /\ [i \in 1..Len(calls[k].args.scts) |-> calls[k].args.scts[i].der]
                         = Delivered(tasks[k])
                  /\ ReportedVerifications(tasks[k])
                         = [i \in 1..Len(calls[k].returned) |->
                               Event("verification", tasks[k],
                                     calls[k].returned[i].sct.der,
                                     calls[k].returned[i].verified)]

\* C9 witness: two SCTs by certificate, then two SCTs by OCSP in the other
\* order, have been reported for one host
C9_Witness ==
    /\ HandshakeSucceeded
    /\ pc = "next_host"
    /\ ReportedScts("verify_scts_by_cert") = <<<<1>>, <<2>>>>
    /\ ReportedScts("verify_scts_by_ocsp") = <<<<2>>, <<1>>>>

\* C10 (as claimed): no step of the processing of a host changes state that
\* outlives the host: der_decoder.defaultErrorState stays as it was, and so
\* does what the extraction of any SCT extension gives.
C10_NoSharedMutableState ==
    [][/\ errorState' = errorState
       /\ \A el \in DerElements :
             SctsOfElement(el, errorState') = SctsOfElement(el, errorState)]_vars

\* a layer of the stapled OCSP response is absent: nothing is stapled, the
\* response has no responseBytes, no line of its pretty print holds the OID,
\* or no '<no-name>=0x' value follows the first line that holds it
OcspLayerAbsent(ocsp_resp_der) ==
    \/ ocsp_resp_der = None
    \/ ~ocsp_resp_der[1].response_bytes
    \/ LinesAfter(ocsp_resp_der[1].response, "oid", 0) = {}
    \/ LET pp == ocsp_resp_der[1].response
       IN  LinesAfter(pp, "hex", Min(LinesAfter(pp, "oid", 0))) = {}

\* the task at position k was started for the host and is no longer running
TaskEnded(k) ==
    /\ HandshakeReturned
    /\ \/ taskPos > k
       \/ taskPos = k /\ pc \in {"next_host", "exited", "raised"}

\* C11 (as claimed): whenever the OCSP task has ended for a host whose
\* stapled response lacks a layer (no staple, no responseBytes, no OID, or the
\* OID with no value after it), scts_from_ocsp_resp has returned the empty
\* list to it and has raised nothing.
C11_EmptyWhenLayerAbsent ==
    \A k \in 1..Len(tasks) :
        (tasks[k] = "verify_scts_by_ocsp" /\ TaskEnded(k)
         /\ OcspLayerAbsent(res.ocsp_resp_der))
            => /\ ~(pc = "raised" /\ taskPos = k)
               /\ Len(calls) >= k
               /\ calls[k].args.scts = <<>>

\* the SCT list without an entry
EmptySctList == Octets(EncodeSctList(<<>>))

\* The server of the host serves no SCT in any channel: its certificate has
\* no SCT extension or one with an empty list, it sends no extension 18, and
\* it staples nothing, or a response without responseBytes, or one without
\* the OID, or one whose OID carries an empty list.
ServesNoScts ==
    /\ peer.net = "ok" /\ peer.chain # None
    /\ peer.chain[1][1].sct_ext \in {None, Some(EmptySctList)}
    /\ peer.ext18 = None
    /\ \/ peer.ocsp = None
       \/ ~peer.ocsp[1].response_bytes
       \/ LinesAfter(peer.ocsp[1].response, "oid", 0) = {}
       \/ peer.ocsp[1].response = <<OtherLine, OidLine, HexLine(EmptySctList)>>

\* the three sub-reports of a host without SCTs, after the host's heading
\* and the information on its certificate
NoSctsReport ==
    <<Line("host"), Line("cert_info")>> \o
    Flatten([k \in 1..Len(AllTasks) |->
                <<Event("heading", AllTasks[k], <<>>, FALSE),
                  Event("no_scts", AllTasks[k], <<>>, FALSE)>>])

\* scrape_and_verify_scts has ended for a host that serves no SCTs, all
\* three tasks selected, with the three sub-reports "no SCTs"
C12_ThreeSubReports ==
    (ScrapeEnded /\ HandshakeSucceeded /\ tasks = AllTasks /\ ServesNoScts)
        => /\ report = NoSctsReport
           /\ pc # "raised"

\* the command, run with the default tasks on a domain file with a host
\* line, has ended with exit code 0
C12_ExitZero ==
    (entry = "main" /\ argv = "run" /\ isfile /\ tasks = AllTasks
     /\ (\E i \in 1..Len(file) : Resolves(file[i]))
     /\ pc \in {"exited", "raised"})
        => exitCode = 0

\* C12 (as claimed): for a host whose handshake succeeded and that serves no
\* SCTs in any channel, with the default task selection, exactly the three
\* sub-reports by certificate, by TLS and by OCSP are reported, each its
\* heading followed by "no SCTs" with no per-SCT block, and the command ends
\* with exit code 0.
C12_NoSctsThreeSubReportsExitZero == C12_ThreeSubReports /\ C12_ExitZero

\* a blank line of the domain file
IsBlank(line) == line \in {<<>>, <<"LF">>}

\* scrape_and_verify_scts and do_handshake are at work on the host
InScrape == idx > 0 /\ pc \in {"handshake_setup", "handshake_try", "report", "task"}

\* C13 (as claimed): of a domain file, every hostname handed to
\* scrape_and_verify_scts and do_handshake is non-empty and without a
\* newline; a blank line before the last line triggers no handshake, and
\* when the driver has ended every line after it has been read.
C13_LinesStrippedBlankSkipped ==
    entry \in {"main", "loop"} =>
        /\ idx > 0 => (domain # <<>> /\ \A i \in 1..Len(domain) : domain[i] # "LF")
        /\ \A i \in 1..(Len(file) - 1) :
              IsBlank(file[i]) =>
                  /\ ~(InScrape /\ idx = i)
                  /\ (argv = "run" /\ isfile /\ pc \in {"exited", "raised"})
                         => idx = Len(file)

====
